---- MODULE Spec2Model ----
(***************************************************************************)
(* Model of the messaging store of api_server: the Database class of       *)
(* db_utils.py on top of one sqlite3 connection.                            *)
(*                                                                         *)
(* users, messages : the two tables as the connection sees them (committed *)
(*                   rows followed by the rows of the open transaction),   *)
(*                   in rowid order, which is insertion order              *)
(* disk            : the committed content of the database file            *)
(* user_count, msg_count : the in-memory counters of the Database object   *)
(* log             : history, the successful inserts that are stored, in   *)
(*                   the order they were made ("u" a user, "m" a message)  *)
(* pager           : history, the pages a client has read of one inbox     *)
(***************************************************************************)
EXTENDS Integers, Sequences, FiniteSets, TLC

VARIABLES users, messages, disk, user_count, msg_count, up, ret,
          issued, made, started, writes, crashes, flushCalled, log, pager,
          pc, loc

vars == <<users, messages, disk, user_count, msg_count, up, ret,
          issued, made, started, writes, crashes, flushCalled, log, pager,
          pc, loc>>

storeVars == <<users, messages, disk, user_count, msg_count>>
histVars == <<issued, made, started, writes, crashes, flushCalled, log, pager>>
threadVars == <<pc, loc>>

(***************************************************************************)
(* Program constant and bounds                                             *)
(***************************************************************************)
commit_frequency == 20

MaxWrites == 3
MaxMsgs == 4
MaxReadMsgs == 2
MaxCrashes == 1
BatchSlack == 2
BatchMinor == 1
MaxStart == 3
MaxLimit == 3
MaxPages == 3
MaxHandlerMsgs == 2

(***************************************************************************)
(* Input domains                                                           *)
(***************************************************************************)
UserNames == {0, 1}
Tokens == {"t1", "t2"}
UserIds == 0 .. 2
Epoch == "2020-01-01T00:00:00Z"
Timestamps == {Epoch, "2020-01-01T00:00:01Z"}

NULL == "NULL"

TextContent == [type |-> "text", text |-> "hi"]
ImageContent == [type |-> "image", url |-> "u", height |-> "10", width |-> "20"]
VideoContent == [type |-> "video", url |-> "v", source |-> "yt"]
AudioContent == [type |-> "audio", url |-> "a"]
TextNoText == [type |-> "text"]
ImageNoWidth == [type |-> "image", url |-> "u", height |-> "10"]
VideoNoSource == [type |-> "video", url |-> "v"]

ValidBodies ==
    { [sender |-> 0, recipient |-> 1, content |-> TextContent],
      [sender |-> 1, recipient |-> 0, content |-> ImageContent],
      [sender |-> 0, recipient |-> 0, content |-> VideoContent] }

InvalidBodies ==
    { [sender |-> 0, recipient |-> 1, content |-> AudioContent],
      [sender |-> 1, recipient |-> 0, content |-> TextNoText],
      [sender |-> 0, recipient |-> 1, content |-> ImageNoWidth],
      [sender |-> 1, recipient |-> 1, content |-> VideoNoSource] }

Bodies == ValidBodies \cup InvalidBodies

Recipients == {0, 1}

(***************************************************************************)
(* Authorization headers.  A header value is absent (None) or a string; a  *)
(* string is modelled as its sequence of lexical items, each a run of      *)
(* whitespace " " or a word without whitespace.                            *)
(***************************************************************************)
None == [present |-> FALSE, text |-> <<>>]
Str(items) == [present |-> TRUE, text |-> items]

Headers ==
    { None,
      Str(<<>>),
      Str(<<"Bearer">>),
      Str(<<"Bearer", " ">>),
      Str(<<"Basic">>),
      Str(<<"Bearer", " ", "t1">>),
      Str(<<"Bearer", " ", "t2">>),
      Str(<<"bearer", " ", "t1">>),
      Str(<<"BEARER", " ", "t2">>),
      Str(<<" ", "bEaReR", " ", "t1", " ">>),
      Str(<<"Basic", " ", "t1">>),
      Str(<<"Token", " ", "t2">>),
      Str(<<"Bearer", " ", "t1", " ", "t2">>),
      Str(<<"Basic", " ", "t1", " ", "x">>) }

\* str.split(): the words of the string, whitespace runs dropped
split(s) == SelectSeq(s, LAMBDA item : item # " ")

\* a comparison of the scheme that keeps the letter case
lower_identity(w) == w

\* str.lower() on the scheme words that occur in Headers
lower(w) ==
    CASE w \in {"Bearer", "bearer", "BEARER", "bEaReR"} -> "bearer"
      [] w \in {"Basic", "basic"} -> "basic"
      [] w \in {"Token", "token"} -> "token"
      [] OTHER -> w

(***************************************************************************)
(* Database.authenticate.  The two-name unpacking of auth.split() raises   *)
(* ValueError unless the header has exactly two words.                     *)
(***************************************************************************)
\* cursor.fetchone() on a table scan: the first of the matching rows idx of
\* the table, or nothing
fetchone(rows, idx) ==
    IF idx = {} THEN <<>>
    ELSE <<rows[CHOOSE i \in idx : \A j \in idx : i <= j]>>

authenticate(u_id, auth) ==
    IF ~auth.present THEN "False"
    ELSE LET parts == split(auth.text)
         IN  IF Len(parts) # 2 THEN "ValueError"
             ELSE IF lower(parts[1]) # "bearer" THEN "False"
             ELSE LET row == fetchone(users,
                                 { i \in 1 .. Len(users) :
                                       users[i].u_id = u_id })
                  IN  IF row # <<>> /\ row[1].auth_token = parts[2]
                      THEN "True" ELSE "False"

(***************************************************************************)
(* Database.user_lookup                                                    *)
(***************************************************************************)
\* a lookup by username alone
user_lookup_by_name(user, token) ==
    LET row == fetchone(users,
                        { i \in 1 .. Len(users) : users[i].username = user })
    IN  IF row = <<>> THEN <<>>
        ELSE <<row[1].u_id, row[1].auth_token>>

user_lookup(user, token) ==
    LET row == fetchone(users,
                        { i \in 1 .. Len(users) :
                              /\ users[i].username = user
                              /\ users[i].auth_token = token })
    IN  IF row = <<>> THEN <<>>
        ELSE <<row[1].u_id, row[1].auth_token>>

(***************************************************************************)
(* Database.get_messages: SELECT ... WHERE recipient=? LIMIT start, limit  *)
(* as a scan of the table in rowid order, then the parsing loop.           *)
(***************************************************************************)
\* an OFFSET that skips one matching row too many
RECURSIVE scan_skip_extra(_, _, _, _)
scan_skip_extra(rows, recipient, start, limit) ==
    IF rows = <<>> \/ limit = 0 THEN <<>>
    ELSE IF Head(rows).recipient # recipient
         THEN scan_skip_extra(Tail(rows), recipient, start, limit)
    ELSE IF start >= 0
         THEN scan_skip_extra(Tail(rows), recipient, start - 1, limit)
    ELSE <<Head(rows)>> \o scan_skip_extra(Tail(rows), recipient, -1, limit - 1)

\* a scan that returns the newest rows first
RECURSIVE scan_newest_first(_, _, _, _)
scan_newest_first(rows, recipient, start, limit) ==
    IF rows = <<>> \/ limit = 0 THEN <<>>
    ELSE LET last == rows[Len(rows)]
             rest == SubSeq(rows, 1, Len(rows) - 1)
         IN  IF last.recipient # recipient
             THEN scan_newest_first(rest, recipient, start, limit)
             ELSE IF start > 0
             THEN scan_newest_first(rest, recipient, start - 1, limit)
             ELSE <<last>> \o scan_newest_first(rest, recipient, 0, limit - 1)

RECURSIVE ScanLimit(_, _, _, _)
ScanLimit(rows, recipient, start, limit) ==
    IF rows = <<>> \/ limit = 0 THEN <<>>
    ELSE IF Head(rows).recipient # recipient
         THEN ScanLimit(Tail(rows), recipient, start, limit)
    ELSE IF start > 0
         THEN ScanLimit(Tail(rows), recipient, start - 1, limit)
    ELSE <<Head(rows)>> \o ScanLimit(Tail(rows), recipient, 0, limit - 1)

\* a parsing loop that takes the height from the width column and back
parse_swapped_dimensions(msg) ==
    [id |-> msg.msg_id,
     timestamp |-> msg.timestamp,
     sender |-> msg.sender,
     recipient |-> msg.recipient,
     content |->
        IF msg.msg_type = "text"
        THEN [type |-> msg.msg_type, text |-> msg.msg_text]
        ELSE IF msg.msg_type = "image"
        THEN [type |-> msg.msg_type, url |-> msg.url,
              height |-> msg.img_width, width |-> msg.img_height]
        ELSE [type |-> msg.msg_type, url |-> msg.url,
              source |-> msg.vid_source]]

ParseMessage(msg) ==
    [id |-> msg.msg_id,
     timestamp |-> msg.timestamp,
     sender |-> msg.sender,
     recipient |-> msg.recipient,
     content |->
        IF msg.msg_type = "text"
        THEN [type |-> msg.msg_type, text |-> msg.msg_text]
        ELSE IF msg.msg_type = "image"
        THEN [type |-> msg.msg_type, url |-> msg.url,
              height |-> msg.img_height, width |-> msg.img_width]
        ELSE [type |-> msg.msg_type, url |-> msg.url,
              source |-> msg.vid_source]]

get_messages(recipient, start, limit) ==
    LET rows == ScanLimit(messages, recipient, start, limit)
    IN  [i \in 1 .. Len(rows) |-> ParseMessage(rows[i])]

(***************************************************************************)
(* Rows built by the INSERT statements                                     *)
(***************************************************************************)
UserRow(u_id, user, token) ==
    [u_id |-> u_id, username |-> user, auth_token |-> token]

EmptyMessageRow(msg_id, sender, recipient, msg_type, timestamp) ==
    [msg_id |-> msg_id, sender |-> sender, recipient |-> recipient,
     msg_type |-> msg_type, msg_text |-> NULL, img_height |-> NULL,
     img_width |-> NULL, url |-> NULL, vid_source |-> NULL,
     timestamp |-> timestamp]

Has(content, key) == key \in DOMAIN content

\* a dispatch that inserts whatever type and fields the body has
message_row_unchecked(msg_id, body, timestamp) ==
    [err |-> "",
     row |-> EmptyMessageRow(msg_id, body.sender, body.recipient,
                             body.content.type, timestamp)]

\* the outcome of the type dispatch of add_message: the row to insert, or
\* the exception raised before any INSERT is executed
MessageRow(msg_id, body, timestamp) ==
    LET content == body.content
        base == EmptyMessageRow(msg_id, body.sender, body.recipient,
                                content.type, timestamp)
    IN  IF content.type = "text"
        THEN IF Has(content, "text")
             THEN [err |-> "", row |-> [base EXCEPT !.msg_text = content.text]]
             ELSE [err |-> "KeyError", row |-> base]
        ELSE IF content.type = "image"
        THEN IF Has(content, "url") /\ Has(content, "height")
                /\ Has(content, "width")
             THEN [err |-> "",
                   row |-> [base EXCEPT !.url = content.url,
                                        !.img_height = content.height,
                                        !.img_width = content.width]]
             ELSE [err |-> "KeyError", row |-> base]
        ELSE IF content.type = "video"
        THEN IF Has(content, "url") /\ Has(content, "source")
             THEN [err |-> "",
                   row |-> [base EXCEPT !.url = content.url,
                                        !.vid_source = content.source]]
             ELSE [err |-> "KeyError", row |-> base]
        ELSE [err |-> "Exception", row |-> base]

\* a users table without the UNIQUE constraint
no_unique_constraint(user) == FALSE

\* the UNIQUE constraint on users.username, checked by the INSERT itself
UsernameTaken(user) == \E i \in 1 .. Len(users) : users[i].username = user

Result(op, args, status, val) ==
    [op |-> op, args |-> args, status |-> status, val |-> val]


\* no page read yet
NoPager == [recipient |-> 0, size |-> 0, pages |-> <<>>, base |-> <<>>]

Zero == [users |-> 0, messages |-> 0]
NoIds == [users |-> <<>>, messages |-> <<>>]

\* ids that start at one
user_id_from_one == user_count + 1

\* the id taken from the number of committed rows
msg_id_from_disk == Len(disk.messages)

\* add_user line 88 and add_message line 155: the id is the in-memory counter
NextUserId == user_count
NextMsgId == msg_count

\* a commit that is due one write late
commit_every_n_plus_one(count) == count % (commit_frequency + 1) = 0

\* a commit that writes the messages table only
snapshot_messages_only(u, m) == [users |-> disk.users, messages |-> m]

\* a commit that writes the users table only
snapshot_users_only(u, m) == [users |-> u, messages |-> disk.messages]

\* lines 95 and 202: commit once the counter is a multiple of commit_frequency
CommitDue(count) == count % commit_frequency = 0

Snapshot(u, m) == [users |-> u, messages |-> m]

(***************************************************************************)
(* Init: Database.__init__ on a new, empty database file                   *)
(***************************************************************************)
Init ==
    /\ users = <<>>
    /\ messages = <<>>
    /\ disk = [users |-> <<>>, messages |-> <<>>]
    /\ user_count = 0
    /\ msg_count = 0
    /\ up = TRUE
    /\ ret = Result("init", <<>>, "ok", 0)
    /\ issued = [users |-> {}, messages |-> {}]
    /\ made = NoIds
    /\ started = Zero
    /\ writes = 0
    /\ crashes = 0
    /\ flushCalled = FALSE
    /\ log = <<>>
    /\ pager = NoPager
    /\ pc = [t \in {1, 2} |-> "idle"]
    /\ loc = [t \in {1, 2} |-> [op |-> "none", args |-> <<>>, id |-> 0,
                                 status |-> "idle"]]

\* add_user with the counter incremented before the INSERT is executed
add_user_count_first(user, token) ==
    /\ up
    /\ LET u_id == NextUserId
       IN  IF \E i \in 1 .. Len(users) : users[i].username = user
           THEN /\ ret' = Result("add_user", <<user, token>>,
                                 "IntegrityError", u_id)
                /\ user_count' = user_count + 1
                /\ UNCHANGED <<users, messages, disk, msg_count, histVars>>
           ELSE /\ users' = Append(users, UserRow(u_id, user, token))
                /\ user_count' = user_count + 1
                /\ disk' = IF CommitDue(user_count')
                           THEN Snapshot(users', messages) ELSE disk
                /\ ret' = Result("add_user", <<user, token>>, "ok", u_id)
                /\ issued' = [issued EXCEPT !.users = @ \cup {u_id}]
                /\ made' = [made EXCEPT !.users = Append(@, u_id)]
                /\ writes' = writes + 1
                /\ log' = Append(log, "u")
                /\ UNCHANGED <<messages, msg_count, started, crashes,
                               flushCalled, pager>>
    /\ UNCHANGED <<up, threadVars>>

(***************************************************************************)
(* Database.add_user, run to completion                                    *)
(***************************************************************************)
AddUser(user, token) ==
    /\ up
    /\ LET u_id == NextUserId
       IN  IF UsernameTaken(user)
           THEN /\ ret' = Result("add_user", <<user, token>>,
                                 "IntegrityError", u_id)
                /\ UNCHANGED <<storeVars, histVars>>
           ELSE /\ users' = Append(users, UserRow(u_id, user, token))
                /\ user_count' = user_count + 1
                /\ disk' = IF CommitDue(user_count')
                           THEN Snapshot(users', messages) ELSE disk
                /\ ret' = Result("add_user", <<user, token>>, "ok", u_id)
                /\ issued' = [issued EXCEPT !.users = @ \cup {u_id}]
                /\ made' = [made EXCEPT !.users = Append(@, u_id)]
                /\ writes' = writes + 1
                /\ log' = Append(log, "u")
                /\ UNCHANGED <<messages, msg_count, started, crashes,
                               flushCalled, pager>>
    /\ UNCHANGED <<up, threadVars>>

(***************************************************************************)
(* Database.add_message, run to completion                                 *)
(***************************************************************************)
AddMessage(body, timestamp) ==
    /\ up
    /\ LET msg_id == NextMsgId
           out == MessageRow(msg_id, body, timestamp)
       IN  IF out.err # ""
           THEN /\ ret' = Result("add_message", <<body>>, out.err, msg_id)
                /\ UNCHANGED <<storeVars, histVars>>
           ELSE /\ messages' = Append(messages, out.row)
                /\ msg_count' = msg_count + 1
                /\ disk' = IF CommitDue(msg_count')
                           THEN Snapshot(users, messages') ELSE disk
                /\ ret' = Result("add_message", <<body>>, "ok",
                                 [id |-> msg_id, timestamp |-> timestamp])
                /\ issued' = [issued EXCEPT !.messages = @ \cup {msg_id}]
                /\ made' = [made EXCEPT !.messages = Append(@, msg_id)]
                /\ writes' = writes + 1
                /\ log' = Append(log, "m")
                /\ UNCHANGED <<users, user_count, started, crashes,
                               flushCalled, pager>>
    /\ UNCHANGED <<up, threadVars>>

(***************************************************************************)
(* Database.commit                                                         *)
(***************************************************************************)
Commit ==
    /\ up
    /\ disk' = Snapshot(users, messages)
    /\ ret' = Result("commit", <<>>, "ok", 0)
    /\ flushCalled' = TRUE
    /\ UNCHANGED <<users, messages, user_count, msg_count, up, issued, made,
                   started, writes, crashes, log, pager, threadVars>>

(***************************************************************************)
(* The read-only calls                                                     *)
(***************************************************************************)
Authenticate(u_id, auth) ==
    /\ up
    /\ LET r == authenticate(u_id, auth)
       IN  ret' = Result("authenticate", <<u_id, auth>>,
                         IF r = "ValueError" THEN r ELSE "ok", r)
    /\ UNCHANGED <<storeVars, up, histVars, threadVars>>

UserLookup(user, token) ==
    /\ up
    /\ ret' = Result("user_lookup", <<user, token>>, "ok",
                     user_lookup(user, token))
    /\ UNCHANGED <<storeVars, up, histVars, threadVars>>

\* Database.query_health: SELECT 1
query_health == 1

QueryHealth ==
    /\ up
    /\ ret' = Result("query_health", <<>>, "ok", query_health)
    /\ UNCHANGED <<storeVars, up, histVars, threadVars>>

\* a get_messages that commits the open transaction before it returns
get_messages_and_commit(recipient, start, limit) ==
    /\ up
    /\ ret' = Result("get_messages", <<recipient, start, limit>>, "ok",
                     get_messages(recipient, start, limit))
    /\ disk' = Snapshot(users, messages)
    /\ UNCHANGED <<users, messages, user_count, msg_count, up, histVars,
                   threadVars>>

GetMessages(recipient, start, limit) ==
    /\ up
    /\ ret' = Result("get_messages", <<recipient, start, limit>>, "ok",
                     get_messages(recipient, start, limit))
    /\ UNCHANGED <<storeVars, up, histVars, threadVars>>

(***************************************************************************)
(* The process dies: the open transaction is lost with the connection and  *)
(* the Database object with its counters.  A restart runs __init__ again.  *)
(***************************************************************************)
Crash ==
    /\ up
    /\ crashes < MaxCrashes
    /\ up' = FALSE
    /\ users' = disk.users
    /\ messages' = disk.messages
    /\ user_count' = 0
    /\ msg_count' = 0
    /\ crashes' = crashes + 1
    /\ ret' = Result("crash", <<>>, "ok", 0)
    /\ log' = SubSeq(log, 1, Len(disk.users) + Len(disk.messages))
    /\ UNCHANGED <<disk, issued, made, started, writes, flushCalled, pager,
                   threadVars>>

\* a restart that starts both counters at zero
restart_from_zero ==
    /\ ~up
    /\ up' = TRUE
    /\ user_count' = 0
    /\ msg_count' = 0
    /\ started' = Zero
    /\ made' = NoIds
    /\ ret' = Result("init", <<>>, "ok", 0)
    /\ UNCHANGED <<users, messages, disk, issued, writes, crashes,
                   flushCalled, log, pager, threadVars>>

Restart ==
    /\ ~up
    /\ up' = TRUE
    /\ user_count' = Len(users)
    /\ msg_count' = Len(messages)
    /\ started' = [users |-> Len(users), messages |-> Len(messages)]
    /\ made' = NoIds
    /\ ret' = Result("init", <<>>, "ok", 0)
    /\ UNCHANGED <<users, messages, disk, issued, writes, crashes,
                   flushCalled, log, pager, threadVars>>

(***************************************************************************)
(* Spec: the mutating calls, run one at a time, with crashes and restarts  *)
(***************************************************************************)
Next ==
    \/ writes < MaxWrites /\ \E user \in UserNames, token \in Tokens :
                                 AddUser(user, token)
    \/ writes < MaxWrites /\ \E body \in Bodies, ts \in Timestamps :
                                 AddMessage(body, ts)
    \/ Commit
    \/ Crash
    \/ Restart

Spec == Init /\ [][Next]_vars

(***************************************************************************)
(* SpecAuth: account creation and the calls that read the users table      *)
(***************************************************************************)
NextAuth ==
    \/ \E user \in UserNames, token \in Tokens : AddUser(user, token)
    \/ Commit
    \/ \E u_id \in UserIds, auth \in Headers : Authenticate(u_id, auth)
    \/ \E user \in UserNames, token \in Tokens : UserLookup(user, token)

SpecAuth == Init /\ [][NextAuth]_vars

(***************************************************************************)
(* SpecList: sending messages and paging through them                      *)
(***************************************************************************)
NextList ==
    \/ Len(messages) < MaxMsgs /\ \E body \in Bodies :
                                      AddMessage(body, Epoch)
    \/ Commit
    \/ \E r \in Recipients, start \in 0 .. MaxStart, limit \in 0 .. MaxLimit :
           GetMessages(r, start, limit)

SpecList == Init /\ [][NextList]_vars

(***************************************************************************)
(* SpecRead: all read-only calls between writes to both tables             *)
(***************************************************************************)
ReadHeaders ==
    { None, Str(<<"Bearer">>), Str(<<"Bearer", " ", "t1">>),
      Str(<<"Basic", " ", "t2">>) }

NextRead ==
    \/ \E user \in UserNames, token \in Tokens : AddUser(user, token)
    \/ Len(messages) < MaxReadMsgs /\ \E body \in ValidBodies :
                                          AddMessage(body, Epoch)
    \/ Commit
    \/ \E u_id \in UserIds, auth \in ReadHeaders : Authenticate(u_id, auth)
    \/ \E user \in UserNames, token \in Tokens : UserLookup(user, token)
    \/ \E r \in Recipients, start \in 0 .. 1, limit \in 1 .. 2 :
           GetMessages(r, start, limit)
    \/ QueryHealth

SpecRead == Init /\ [][NextRead]_vars

(***************************************************************************)
(* SpecPaging: a client reads the pages of one inbox at start 0, L, 2L ... *)
(* with get_messages while messages are sent between its calls            *)
(***************************************************************************)
PageRead(recipient, size) ==
    /\ up
    /\ Len(pager.pages) < MaxPages
    /\ pager.pages # <<>> => recipient = pager.recipient /\ size = pager.size
    /\ LET start == Len(pager.pages) * size
           page == get_messages(recipient, start, size)
           rows == SelectSeq(messages, LAMBDA m : m.recipient = recipient)
       IN  /\ ret' = Result("get_messages", <<recipient, start, size>>, "ok",
                            page)
           /\ pager' = [recipient |-> recipient,
                        size |-> size,
                        pages |-> Append(pager.pages, page),
                        base |-> IF pager.pages = <<>>
                                 THEN [i \in 1 .. Len(rows) |-> rows[i].msg_id]
                                 ELSE pager.base]
    /\ UNCHANGED <<storeVars, up, issued, made, started, writes, crashes,
                   flushCalled, log, threadVars>>

NextPaging ==
    \/ Len(messages) < MaxMsgs /\ \E body \in ValidBodies :
                                      AddMessage(body, Epoch)
    \/ \E r \in Recipients, size \in 1 .. 2 : PageRead(r, size)

SpecPaging == Init /\ [][NextPaging]_vars

(***************************************************************************)
(* The request handlers of challenge.py.  They work on the two tables      *)
(* through the module's connection, not through Database: the ids are      *)
(* row count of the table, and the counters of Database are not involved. *)
(* A value that may be None is a sequence of length 0 or 1.                *)
(***************************************************************************)
Passwords == {"pw1", "pw2"}

\* hashlib.md5((password + "salt")).hexdigest(): one digest for each password
hexdigest(password) ==
    CASE password = "pw1" -> "t1"
      [] password = "pw2" -> "t2"

HandlerHeaders ==
    { None,
      Str(<<"Bearer", " ", "t1">>),
      Str(<<"bearer", " ", "t2">>),
      Str(<<"Basic", " ", "t1">>),
      Str(<<"Bearer", " ", "t1", " ", "t2">>) }

\* request bodies of POST /messages; sender <<>> is the JSON null
HandlerBodies ==
    { [sender |-> s, recipient |-> b.recipient, content |-> b.content] :
        s \in {<<>>, <<0>>, <<1>>},
        b \in { [recipient |-> 1, content |-> TextContent],
                [recipient |-> 0, content |-> ImageContent],
                [recipient |-> 0, content |-> AudioContent],
                [recipient |-> 1, content |-> TextNoText] } }

\* the limit parameter of GET /messages, absent or given
Limits == {<<>>, <<1>>}
default_limit == 100
handler_commit_every == 20
handler_query_health == 1

\* check_authorization: self.auth_user, or the exception of the unpacking
check_authorization(auth) ==
    IF ~auth.present THEN [err |-> "", auth_user |-> <<>>]
    ELSE LET parts == split(auth.text)
         IN  IF Len(parts) # 2 THEN [err |-> "ValueError", auth_user |-> <<>>]
             ELSE IF lower(parts[1]) # "bearer"
             THEN [err |-> "", auth_user |-> <<>>]
             ELSE LET row == fetchone(users,
                                 { i \in 1 .. Len(users) :
                                       users[i].auth_token = parts[2] })
                  IN  [err |-> "",
                       auth_user |-> IF row = <<>> THEN <<>>
                                     ELSE <<row[1].u_id>>]

\* a handler that accepts every sender
sender_unchecked(sender, auth_user) == FALSE

\* handle_send_message line 129: sender != self.auth_user
sender_mismatch(sender, auth_user) == sender # auth_user

\* handle_messages line 75: int(recipient) != self.auth_user
recipient_mismatch(recipient, auth_user) == <<recipient>> # auth_user

\* the type dispatch of handle_send_message: the row of the INSERT, the
\* exception raised by a missing field or by the NOT NULL constraint on
\* sender, or the invalid type
handler_row(msg_id, body, timestamp) ==
    LET content == body.content
        base == EmptyMessageRow(msg_id,
                                IF body.sender = <<>> THEN NULL
                                ELSE body.sender[1],
                                body.recipient, content.type, timestamp)
        checked(row) == IF body.sender = <<>>
                        THEN [err |-> "IntegrityError", row |-> base]
                        ELSE [err |-> "", row |-> row]
    IN  IF content.type = "text"
        THEN IF Has(content, "text")
             THEN checked([base EXCEPT !.msg_text = content.text])
             ELSE [err |-> "KeyError", row |-> base]
        ELSE IF content.type = "image"
        THEN IF Has(content, "url") /\ Has(content, "height")
                /\ Has(content, "width")
             THEN checked([base EXCEPT !.url = content.url,
                                       !.img_height = content.height,
                                       !.img_width = content.width])
             ELSE [err |-> "KeyError", row |-> base]
        ELSE IF content.type = "video"
        THEN IF Has(content, "url") /\ Has(content, "source")
             THEN checked([base EXCEPT !.url = content.url,
                                       !.vid_source = content.source])
             ELSE [err |-> "KeyError", row |-> base]
        ELSE [err |-> "Invalid message type", row |-> base]

AuthFailedSender == "Authentication failed, incorrect token for sender"

HandleNewUser(user, password) ==
    /\ up
    /\ LET token == hexdigest(password)
           u_id == Len(users)
       IN  IF UsernameTaken(user)
           THEN /\ ret' = Result("handle_new_user", <<user, password>>, "400",
                                 "User already exists")
                /\ UNCHANGED <<users, disk>>
           ELSE /\ users' = Append(users, UserRow(u_id, user, token))
                /\ disk' = Snapshot(users', messages)
                /\ ret' = Result("handle_new_user", <<user, password>>, "200",
                                 u_id)
    /\ UNCHANGED <<messages, user_count, msg_count, up, histVars, threadVars>>

HandleLogin(user, password) ==
    /\ up
    /\ LET token == hexdigest(password)
           check == fetchone(users,
                             { i \in 1 .. Len(users) :
                                   /\ users[i].username = user
                                   /\ users[i].auth_token = token })
       IN  ret' = IF check = <<>>
                  THEN Result("handle_login", <<user, password>>, "400",
                              "Invalid username/password")
                  ELSE Result("handle_login", <<user, password>>, "200",
                              <<check[1].u_id, check[1].auth_token>>)
    /\ UNCHANGED <<storeVars, up, histVars, threadVars>>

HandleCheck ==
    /\ up
    /\ ret' = IF handler_query_health # 1
              THEN Result("handle_check", <<>>, "Exception", NULL)
              ELSE Result("handle_check", <<>>, "200", "ok")
    /\ UNCHANGED <<storeVars, up, histVars, threadVars>>

HandleSendMessage(auth, body) ==
    /\ up
    /\ LET checked == check_authorization(auth)
           msg_id == Len(messages)
           made_row == handler_row(msg_id, body, Epoch)
           args == <<auth, body>>
       IN  IF checked.err # ""
           THEN /\ ret' = Result("handle_send_message", args, checked.err, NULL)
                /\ UNCHANGED <<messages, disk>>
           ELSE IF sender_mismatch(body.sender, checked.auth_user)
           THEN /\ ret' = Result("handle_send_message", args, "400",
                                 AuthFailedSender)
                /\ UNCHANGED <<messages, disk>>
           ELSE IF made_row.err = "Invalid message type"
           THEN /\ ret' = Result("handle_send_message", args, "400",
                                 made_row.err)
                /\ UNCHANGED <<messages, disk>>
           ELSE IF made_row.err # ""
           THEN /\ ret' = Result("handle_send_message", args, made_row.err,
                                 NULL)
                /\ UNCHANGED <<messages, disk>>
           ELSE /\ messages' = Append(messages, made_row.row)
                /\ disk' = IF msg_id % handler_commit_every = 0
                           THEN Snapshot(users, messages')
                           ELSE disk
                /\ ret' = Result("handle_send_message", args, "200",
                                 [id |-> msg_id, timestamp |-> Epoch])
    /\ UNCHANGED <<users, user_count, msg_count, up, histVars, threadVars>>

\* the parsing loop of handle_messages
handler_parse(msg) ==
    [id |-> msg.msg_id,
     timestamp |-> msg.timestamp,
     sender |-> msg.sender,
     recipient |-> msg.recipient,
     content |->
        IF msg.msg_type = "text"
        THEN [type |-> msg.msg_type, text |-> msg.msg_text]
        ELSE IF msg.msg_type = "image"
        THEN [type |-> msg.msg_type, url |-> msg.url,
              height |-> msg.img_height, width |-> msg.img_width]
        ELSE [type |-> msg.msg_type, url |-> msg.url,
              source |-> msg.vid_source]]

HandleMessages(auth, recipient, start, limit) ==
    /\ up
    /\ LET checked == check_authorization(auth)
           args == <<auth, recipient, start, limit>>
           rows == ScanLimit(messages, recipient, start,
                             IF limit = <<>> THEN default_limit ELSE limit[1])
       IN  ret' =
             IF checked.err # ""
             THEN Result("handle_messages", args, checked.err, <<>>)
             ELSE IF recipient_mismatch(recipient, checked.auth_user)
             THEN Result("handle_messages", args, "400", <<>>)
             ELSE Result("handle_messages", args, "200",
                         [i \in 1 .. Len(rows) |-> handler_parse(rows[i])])
    /\ UNCHANGED <<storeVars, up, histVars, threadVars>>

NextHandler ==
    \/ \E user \in UserNames, password \in Passwords :
           HandleNewUser(user, password)
    \/ \E user \in UserNames, password \in Passwords :
           HandleLogin(user, password)
    \/ HandleCheck
    \/ /\ Len(messages) < MaxHandlerMsgs
       /\ \E auth \in HandlerHeaders, body \in HandlerBodies :
              HandleSendMessage(auth, body)
    \/ \E auth \in HandlerHeaders, recipient \in Recipients,
          start \in 0 .. 1, limit \in Limits :
           HandleMessages(auth, recipient, start, limit)

SpecHandler == Init /\ [][NextHandler]_vars

TypeOK ==
    /\ user_count \in Nat
    /\ msg_count \in Nat
    /\ up \in BOOLEAN

(***************************************************************************)
(* SpecBatch: long runs of writes, up to and beyond commit_frequency       *)
(***************************************************************************)
BatchBody == [sender |-> 0, recipient |-> 1, content |-> TextContent]
BatchWrites == commit_frequency + BatchSlack

\* the runs in which at most one of the two tables grows beyond BatchMinor
\* rows and commit() is called at most once
OneTableLong(grown, other) ==
    Len(grown) < BatchMinor \/ Len(other) <= BatchMinor

NextBatch ==
    \/ /\ writes < BatchWrites
       /\ OneTableLong(users, messages)
       /\ \E user \in {0, Len(users)} : AddUser(user, "t1")
    \/ /\ writes < BatchWrites
       /\ OneTableLong(messages, users)
       /\ AddMessage(BatchBody, Epoch)
    \/ ~flushCalled /\ Commit
    \/ Crash
    \/ Restart

SpecBatch == Init /\ [][NextBatch]_vars

(***************************************************************************)
(* SpecThreads: two calls of the Database methods on two threads, without  *)
(* any lock (the class has none), interleaved between the statements that  *)
(* read the counter, execute the INSERT, increment the counter and commit. *)
(* loc[t] holds the locals of the call of thread t.                        *)
(***************************************************************************)
Threads == {1, 2}

Locals(op, args, id, status) ==
    [op |-> op, args |-> args, id |-> id, status |-> status]

Goto(t, label) == pc' = [pc EXCEPT ![t] = label]

\* add_user line 88: u_id = self.user_count
UserRead(t, user, token) ==
    /\ pc[t] = "idle"
    /\ loc' = [loc EXCEPT ![t] =
                  Locals("add_user", <<user, token>>, NextUserId, "running")]
    /\ Goto(t, "insert")
    /\ UNCHANGED <<storeVars, up, ret, histVars>>

\* add_user lines 90-91: the INSERT, which checks the UNIQUE constraint
UserInsert(t) ==
    /\ pc[t] = "insert"
    /\ loc[t].op = "add_user"
    /\ IF UsernameTaken(loc[t].args[1])
       THEN /\ loc' = [loc EXCEPT ![t].status = "IntegrityError"]
            /\ Goto(t, "done")
            /\ UNCHANGED users
       ELSE /\ users' = Append(users, UserRow(loc[t].id, loc[t].args[1],
                                              loc[t].args[2]))
            /\ Goto(t, "incr")
            /\ UNCHANGED loc
    /\ UNCHANGED <<messages, disk, user_count, msg_count, up, ret, histVars>>

\* add_user line 93: self.user_count += 1
UserIncr(t) ==
    /\ pc[t] = "incr"
    /\ loc[t].op = "add_user"
    /\ user_count' = user_count + 1
    /\ Goto(t, "commit")
    /\ UNCHANGED <<users, messages, disk, msg_count, up, ret, histVars, loc>>

\* add_user lines 95-99: the occasional commit, and the return of u_id
UserReturn(t) ==
    /\ pc[t] = "commit"
    /\ loc[t].op = "add_user"
    /\ disk' = IF CommitDue(user_count)
               THEN Snapshot(users, messages) ELSE disk
    /\ loc' = [loc EXCEPT ![t].status = "ok"]
    /\ issued' = [issued EXCEPT !.users = @ \cup {loc[t].id}]
    /\ made' = [made EXCEPT !.users = Append(@, loc[t].id)]
    /\ writes' = writes + 1
    /\ log' = Append(log, "u")
    /\ Goto(t, "done")
    /\ UNCHANGED <<users, messages, user_count, msg_count, up, ret,
                   started, crashes, flushCalled, pager>>

\* add_message lines 151-159: the fields of the body and msg_id = self.msg_count
MessageRead(t, body, timestamp) ==
    /\ pc[t] = "idle"
    /\ loc' = [loc EXCEPT ![t] =
                  Locals("add_message", <<body, timestamp>>, NextMsgId,
                         "running")]
    /\ Goto(t, "insert")
    /\ UNCHANGED <<storeVars, up, ret, histVars>>

\* add_message lines 162-196: the INSERT of the type, or the exception
MessageInsert(t) ==
    /\ pc[t] = "insert"
    /\ loc[t].op = "add_message"
    /\ LET out == MessageRow(loc[t].id, loc[t].args[1], loc[t].args[2])
       IN  IF out.err # ""
           THEN /\ loc' = [loc EXCEPT ![t].status = out.err]
                /\ Goto(t, "done")
                /\ UNCHANGED messages
           ELSE /\ messages' = Append(messages, out.row)
                /\ Goto(t, "incr")
                /\ UNCHANGED loc
    /\ UNCHANGED <<users, disk, user_count, msg_count, up, ret, histVars>>

\* add_message line 199: self.msg_count += 1
MessageIncr(t) ==
    /\ pc[t] = "incr"
    /\ loc[t].op = "add_message"
    /\ msg_count' = msg_count + 1
    /\ Goto(t, "commit")
    /\ UNCHANGED <<users, messages, disk, user_count, up, ret, histVars, loc>>

\* add_message lines 202-209: the occasional commit, and the response
MessageReturn(t) ==
    /\ pc[t] = "commit"
    /\ loc[t].op = "add_message"
    /\ disk' = IF CommitDue(msg_count)
               THEN Snapshot(users, messages) ELSE disk
    /\ loc' = [loc EXCEPT ![t].status = "ok"]
    /\ issued' = [issued EXCEPT !.messages = @ \cup {loc[t].id}]
    /\ made' = [made EXCEPT !.messages = Append(@, loc[t].id)]
    /\ writes' = writes + 1
    /\ log' = Append(log, "m")
    /\ Goto(t, "done")
    /\ UNCHANGED <<users, messages, user_count, msg_count, up, ret,
                   started, crashes, flushCalled, pager>>

NextThreads ==
    \E t \in Threads :
        \/ \E user \in UserNames, token \in Tokens : UserRead(t, user, token)
        \/ UserInsert(t)
        \/ UserIncr(t)
        \/ UserReturn(t)
        \/ \E body \in Bodies, ts \in Timestamps : MessageRead(t, body, ts)
        \/ MessageInsert(t)
        \/ MessageIncr(t)
        \/ MessageReturn(t)

SpecThreads == Init /\ [][NextThreads]_vars

(***************************************************************************)
(* A step on which add_user (add_message) returned an id                   *)
(***************************************************************************)
UserCreated == Len(made'.users) = Len(made.users) + 1
MessageSent == Len(made'.messages) = Len(made.messages) + 1

\* C1: over any sequence of create_user, append_message, flush, crash and
\* restart steps, an id returned by a successful create_user (respectively
\* append_message) is never returned by a later one, also when the record
\* that first received it was lost by a crash before a flush.
C1_IdNeverReturnedAgain ==
    [][/\ UserCreated => ret'.val \notin issued.users
       /\ MessageSent => ret'.val.id \notin issued.messages]_vars

(***************************************************************************)
(* Classification of the header of an authenticate call                    *)
(***************************************************************************)
Words(auth) == split(auth.text)
IsBearer(w) == w \in {"Bearer", "bearer", "BEARER", "bEaReR"}
TwoPart(auth) == auth.present /\ Len(Words(auth)) = 2
WellFormed(auth) == TwoPart(auth) /\ IsBearer(Words(auth)[1])
Malformed(auth) == ~WellFormed(auth)
AuthCall == ret.op = "authenticate"

\* C2: authenticate returns false, and raises no error, for every malformed
\* header: a scheme other than Bearer, the Bearer scheme with no token after
\* it, more than two whitespace-separated parts, and an absent header.
C2_MalformedHeaderIsFalse ==
    (AuthCall /\ Malformed(ret.args[2])) => ret.val = "False"

\* C3: for None and for every two-part header "<scheme> <token>",
\* authenticate returns true exactly when the scheme is Bearer in any letter
\* case, a user with that id is stored and that user's auth_token equals the
\* presented token; otherwise it returns false.
C3_AuthenticateDecision ==
    (AuthCall /\ (TwoPart(ret.args[2]) \/ ~ret.args[2].present)) =>
        LET u_id == ret.args[1]
            auth == ret.args[2]
            accepted ==
                /\ WellFormed(auth)
                /\ \E i \in 1 .. Len(users) :
                       /\ users[i].u_id = u_id
                       /\ users[i].auth_token = Words(auth)[2]
        IN  ret.val = IF accepted THEN "True" ELSE "False"

\* a user was authenticated with the scheme written in another letter case,
\* while another stored user has a different token
C3_Witness ==
    /\ AuthCall
    /\ ret.val = "True"
    /\ Words(ret.args[2])[1] = "BEARER"
    /\ Len(users) = 2
    /\ users[1].auth_token # users[2].auth_token

(***************************************************************************)
(* Two finished calls of the same kind on the two threads                  *)
(***************************************************************************)
BothDone(op) ==
    /\ pc[1] = "done" /\ pc[2] = "done"
    /\ loc[1].op = op /\ loc[2].op = op

BothReturned(op) ==
    BothDone(op) /\ loc[1].status = "ok" /\ loc[2].status = "ok"

\* C4: two append_message calls, or two create_user calls with different
\* usernames, interleaved between reading the counter, inserting the record
\* and incrementing the counter, never return the same id, and afterwards
\* the counter equals the number of stored records of the collection.
C4_InterleavedIdsDistinct ==
    /\ BothReturned("add_message") =>
           loc[1].id # loc[2].id /\ msg_count = Len(messages)
    /\ (BothReturned("add_user") /\ loc[1].args[1] # loc[2].args[1]) =>
           loc[1].id # loc[2].id /\ user_count = Len(users)

\* C5: of two create_user calls with the same username, interleaved in any
\* way, at most one succeeds, and no two stored users have the same username.
C5_UniqueUsername ==
    /\ \A i, j \in 1 .. Len(users) :
           users[i].username = users[j].username => i = j
    /\ (BothDone("add_user") /\ loc[1].args[1] = loc[2].args[1]) =>
           ~(loc[1].status = "ok" /\ loc[2].status = "ok")

\* both threads read the counter before either inserted, both used the same
\* username, and the second INSERT was refused
C5_Witness ==
    /\ BothDone("add_user")
    /\ loc[1].args[1] = loc[2].args[1]
    /\ loc[1].id = loc[2].id
    /\ loc[1].status = "ok"
    /\ loc[2].status = "IntegrityError"
    /\ Len(users) = 1

(***************************************************************************)
(* Sequential execution: add_user                                          *)
(***************************************************************************)
Stored(user) == \E i \in 1 .. Len(users) : users[i].username = user
UserCall == ret'.op = "add_user" /\ vars' # vars
UserRefused == UserCall /\ ret'.status = "IntegrityError"

\* C6: create_user with a stored username fails with a duplicate-user error
\* and leaves the store unchanged: no record is added, the user count is not
\* increased, nothing is flushed, and the next successful create_user
\* receives the id the failed call would have received.
C6_DuplicateLeavesStoreUnchanged ==
    [][/\ (UserCall /\ Stored(ret'.args[1])) => UserRefused
       /\ UserRefused =>
              /\ UNCHANGED <<users, messages, disk, user_count, msg_count>>
              /\ ret'.val = user_count
       /\ (ret.op = "add_user" /\ ret.status = "IntegrityError"
             /\ UserCreated) => ret'.val = ret.val]_vars

\* a create_user was refused while one user was stored and not yet flushed
C6_Witness ==
    /\ ret.op = "add_user"
    /\ ret.status = "IntegrityError"
    /\ Stored(ret.args[1])
    /\ Len(users) = 1
    /\ user_count = 1
    /\ ret.val = 1
    /\ disk.users = <<>>

\* C7: in a process started on an empty store the k-th successful
\* create_user returns k-1; each successful create_user returns the current
\* user count and stores the user under that id; a stored user's id never
\* changes.
C7_SequentialUserIds ==
    [][/\ (UserCreated /\ started.users = 0) => ret'.val = Len(made.users)
       /\ UserCreated =>
              /\ ret'.val = user_count
              /\ user_count' = user_count + 1
              /\ Len(users') = Len(users) + 1
              /\ users'[Len(users')].u_id = ret'.val
       /\ \A i \in 1 .. Len(users) :
              i <= Len(users') => users'[i].u_id = users[i].u_id]_vars

\* the second create_user of a process started on an empty store returned 1
C7_Witness ==
    /\ started.users = 0
    /\ made.users = <<0, 1>>
    /\ ret.op = "add_user" /\ ret.status = "ok" /\ ret.val = 1
    /\ Len(users) = 2
    /\ users[2].u_id = 1

(***************************************************************************)
(* Sequential execution: add_message                                       *)
(***************************************************************************)
\* C8: each successful append_message returns the current message count, so
\* within one process the message ids are unique and strictly increasing in
\* send order over all recipients; one recipient's ids may have gaps.
C8_GlobalMessageIds ==
    [][MessageSent =>
           /\ ret'.val.id = msg_count
           /\ msg_count' = msg_count + 1
           /\ messages'[Len(messages')].msg_id = ret'.val.id
           /\ \A k \in 1 .. Len(made.messages) :
                  made.messages[k] < ret'.val.id]_vars

\* recipient 0 holds the messages 0 and 2, message 1 went to recipient 1
C8_Witness ==
    /\ made.messages = <<0, 1, 2>>
    /\ Len(messages) = 3
    /\ messages[1].recipient = 0 /\ messages[1].msg_id = 0
    /\ messages[2].recipient = 1 /\ messages[2].msg_id = 1
    /\ messages[3].recipient = 0 /\ messages[3].msg_id = 2

(***************************************************************************)
(* Paging: the messages of a recipient, and the pages of size L in order   *)
(***************************************************************************)
Inbox(recipient) ==
    LET rows == SelectSeq(messages, LAMBDA m : m.recipient = recipient)
    IN  [i \in 1 .. Len(rows) |-> ParseMessage(rows[i])]

Min(a, b) == IF a < b THEN a ELSE b

RECURSIVE Pages(_, _, _)
Pages(recipient, L, from) ==
    IF from >= Len(messages) THEN <<>>
    ELSE get_messages(recipient, from, L) \o Pages(recipient, L, from + L)

\* C9: for non-negative start and limit, list_messages returns the messages
\* of the recipient in ascending id order (insertion order), the first start
\* of them skipped and at most limit returned; a start at or beyond the
\* number of matches and a limit of 0 give the empty result; the pages of
\* size L > 0 at start 0, L, 2L, ... concatenated are the recipient's whole
\* ordered list, each message exactly once.
C9_ListMessagesPage ==
    /\ ret.op = "get_messages" =>
           LET recipient == ret.args[1]
               start == ret.args[2]
               limit == ret.args[3]
               inbox == Inbox(recipient)
               n == Len(inbox)
               k == IF start >= n THEN 0 ELSE Min(limit, n - start)
           IN  /\ Len(ret.val) = k
               /\ \A i \in 1 .. k : ret.val[i] = inbox[start + i]
               /\ \A i \in 1 .. k : ret.val[i].recipient = recipient
               /\ \A i, j \in 1 .. k : i < j => ret.val[i].id < ret.val[j].id
               /\ (start >= n \/ limit = 0) => ret.val = <<>>
    /\ \A recipient \in Recipients, L \in 1 .. MaxLimit :
           Pages(recipient, L, 0) = Inbox(recipient)

\* the middle one of three messages of a recipient, whose ids have a gap,
\* was returned for start 1 and limit 1
C9_Witness ==
    /\ ret.op = "get_messages"
    /\ ret.args = <<0, 1, 1>>
    /\ Len(Inbox(0)) = 3
    /\ Len(messages) = 4
    /\ Len(ret.val) = 1
    /\ ret.val[1] = Inbox(0)[2]
    /\ Inbox(0)[3].id > Inbox(0)[2].id + 1

(***************************************************************************)
(* Durability batching                                                     *)
(***************************************************************************)
\* the rows of a table that are not in the committed table
NotDurable(rows, committed) ==
    { i \in 1 .. Len(rows) : i > Len(committed) \/ committed[i] # rows[i] }

PendingUsers == Cardinality(NotDurable(users, disk.users))
PendingMessages == Cardinality(NotDurable(messages, disk.messages))

\* C10: the number of writes of each collection that are not yet durable is
\* always less than commit_frequency, and right after the insert that is the
\* commit_frequency-th write of its collection since the collection was last
\* flushed, every write of that collection is durable.
C10_BatchedDurability ==
    /\ [](PendingUsers < commit_frequency
            /\ PendingMessages < commit_frequency)
    /\ [][/\ (UserCreated /\ PendingUsers = commit_frequency - 1) =>
                 disk'.users = users'
          /\ (MessageSent /\ PendingMessages = commit_frequency - 1) =>
                 disk'.messages = messages']_vars

\* the twentieth create_user since the start, with no commit() call and no
\* crash before it, left all twenty users durable
C10_Witness ==
    /\ ~flushCalled /\ crashes = 0
    /\ ret.op = "add_user" /\ ret.status = "ok" /\ ret.val = commit_frequency - 1
    /\ Len(users) = commit_frequency
    /\ Len(messages) = 1
    /\ disk.users = users
    /\ PendingUsers = 0

(***************************************************************************)
(* Read-your-writes                                                        *)
(***************************************************************************)
Bearer(token) == Str(<<"Bearer", " ", token>>)

\* C11: a write is visible to the readers of the process as soon as the
\* mutating call returns, flushed or not: after a successful append_message
\* the list of the recipient from start 0 with a sufficient limit has the
\* message with the returned id and the same sender, recipient and content;
\* after a successful create_user, lookup_user and authenticate see the user.
C11_ReadYourWrites ==
    /\ (ret.op = "add_message" /\ ret.status = "ok") =>
           LET body == ret.args[1]
               listed == get_messages(body.recipient, 0, Len(messages))
           IN  \E i \in 1 .. Len(listed) :
                   /\ listed[i].id = ret.val.id
                   /\ listed[i].sender = body.sender
                   /\ listed[i].recipient = body.recipient
                   /\ listed[i].content = body.content
                   /\ listed[i].timestamp = ret.val.timestamp
    /\ (ret.op = "add_user" /\ ret.status = "ok") =>
           /\ user_lookup(ret.args[1], ret.args[2]) = <<ret.val, ret.args[2]>>
           /\ authenticate(ret.val, Bearer(ret.args[2])) = "True"

\* an image message was sent and is listed while nothing of it is committed
C11_Witness ==
    /\ ret.op = "add_message" /\ ret.status = "ok"
    /\ ret.args[1].content.type = "image"
    /\ ret.val.id = 1
    /\ messages[1].recipient = 1
    /\ disk.messages = <<>>
    /\ get_messages(0, 0, 2)[1].content.width = "20"

\* C12: a successful create_user(username, token) followed at once by
\* lookup_user(username, token) returns the assigned id with that token;
\* lookup_user returns nothing whenever no stored user has exactly that
\* username and exactly that token.
C12_LookupAfterCreate ==
    /\ [][(ret.op = "add_user" /\ ret.status = "ok"
             /\ ret'.op = "user_lookup" /\ ret'.args = ret.args) =>
              ret'.val = <<ret.val, ret.args[2]>>]_vars
    /\ [](ret.op = "user_lookup" =>
              LET match == { i \in 1 .. Len(users) :
                                 /\ users[i].username = ret.args[1]
                                 /\ users[i].auth_token = ret.args[2] }
              IN  /\ match = {} => ret.val = <<>>
                  /\ \A i \in match :
                         ret.val = <<users[i].u_id, users[i].auth_token>>)

\* the second user was looked up with its own token and found, while the
\* other user holds the other token
C12_Witness ==
    /\ ret.op = "user_lookup"
    /\ ret.val = <<1, "t2">>
    /\ Len(users) = 2
    /\ users[1].auth_token = "t1"

\* the username is stored, the token is that of another user: nothing found
C12_WitnessNothing ==
    /\ ret.op = "user_lookup"
    /\ ret.val = <<>>
    /\ \E i \in 1 .. Len(users) : users[i].username = ret.args[1]
    /\ \E i \in 1 .. Len(users) : users[i].auth_token = ret.args[2]

(***************************************************************************)
(* flush                                                                   *)
(***************************************************************************)
\* C13: flush makes every pending write durable, so that the durable state
\* equals the state of the process; it changes neither the visible records
\* nor the id counters; a second flush in a row leaves the durable state of
\* the first.
C13_FlushDurableIdempotent ==
    [][ret'.op = "commit" =>
           /\ disk'.users = users /\ disk'.messages = messages
           /\ UNCHANGED <<users, messages, user_count, msg_count>>
           /\ ret.op = "commit" => disk' = disk]_vars

\* a commit() call made one user and one message durable
C13_Witness ==
    /\ ret.op = "commit"
    /\ Len(users) = 1 /\ Len(messages) = 1
    /\ disk.users = users /\ disk.messages = messages
    /\ user_count = 1 /\ msg_count = 1

(***************************************************************************)
(* Failing add_message                                                     *)
(***************************************************************************)
Required(type) ==
    CASE type = "text" -> {"text"}
      [] type = "image" -> {"url", "height", "width"}
      [] type = "video" -> {"url", "source"}
      [] OTHER -> {}

ValidContent(content) ==
    /\ content.type \in {"text", "image", "video"}
    /\ Required(content.type) \subseteq DOMAIN content

MessageCall == ret'.op = "add_message" /\ vars' # vars

\* C14: an append_message that fails, because the type is not text, image or
\* video or because a field required by the type is missing, leaves the
\* store unchanged: no record inserted, the message count not increased,
\* nothing flushed.
C14_FailedSendLeavesStoreUnchanged ==
    [][/\ (MessageCall /\ ~ValidContent(ret'.args[1].content)) =>
              ret'.status # "ok"
       /\ (MessageCall /\ ret'.status # "ok") =>
              UNCHANGED <<users, messages, disk, user_count, msg_count>>]_vars

\* an image without width was refused while one message was stored
C14_Witness ==
    /\ ret.op = "add_message"
    /\ ret.status = "KeyError"
    /\ ret.args[1].content.type = "image"
    /\ "width" \notin DOMAIN ret.args[1].content
    /\ Len(messages) = 1 /\ msg_count = 1
    /\ disk.messages = <<>>

(***************************************************************************)
(* The read-only calls                                                     *)
(***************************************************************************)
ReadOps == {"get_messages", "user_lookup", "authenticate", "query_health"}

\* C16: list_messages, lookup_user, authenticate and health change nothing:
\* the stored users and messages, both id counters and the durable state
\* are the same after the call as before; list_messages repeated with the
\* same arguments on an unchanged store returns the same result.
C16_ReadsChangeNothing ==
    [][/\ ret'.op \in ReadOps =>
              UNCHANGED <<users, messages, disk, user_count, msg_count>>
       /\ (ret.op = "get_messages" /\ ret'.op = "get_messages"
             /\ ret'.args = ret.args) => ret'.val = ret.val]_vars

\* a page was listed while the listed message and a user are not committed
C16_Witness ==
    /\ ret.op = "get_messages"
    /\ Len(ret.val) = 1
    /\ Len(users) = 1
    /\ disk.messages = <<>> /\ disk.users = <<>>
    /\ user_count = 1 /\ msg_count = 2

(***************************************************************************)
(* The durable state and the history of writes                             *)
(***************************************************************************)
CountOf(kind, seq) == Cardinality({ i \in 1 .. Len(seq) : seq[i] = kind })

Durable == Len(disk.users) + Len(disk.messages)

\* C18: the durable state is always a prefix of the one history of the
\* successful writes to both tables: a flush, whichever counter or call made
\* it, makes the pending writes of both tables durable; after a crash the
\* surviving records are the writes made before the last flush, so no
\* message survives while a user created before it was sent is lost.
C18_DurablePrefixOfHistory ==
    /\ [](/\ Len(users) = CountOf("u", log)
          /\ Len(messages) = CountOf("m", log)
          /\ Durable <= Len(log)
          /\ LET flushed == SubSeq(log, 1, Durable)
             IN  /\ disk.users = SubSeq(users, 1, CountOf("u", flushed))
                 /\ disk.messages =
                        SubSeq(messages, 1, CountOf("m", flushed)))
    /\ [][(up /\ ~up') =>
              /\ users' = disk.users /\ messages' = disk.messages
              /\ disk' = disk]_vars

\* a user created before twenty messages survived a crash together with
\* them: the commit of the twentieth message wrote the user as well
C18_Witness ==
    /\ crashes = 1 /\ up /\ ~flushCalled
    /\ Len(users) = 1
    /\ Len(messages) = commit_frequency
    /\ log[1] = "u"

\* C19: run one call at a time, in every state of a running process, also
\* after a crash and a restart that counts the rows, the user counter is the
\* number of stored users and their ids are exactly 0 .. user_count-1, and
\* the same holds of the message counter and the message ids.
C19_CountersMatchRows ==
    up => /\ user_count = Len(users)
          /\ \A i \in 1 .. Len(users) : users[i].u_id = i - 1
          /\ msg_count = Len(messages)
          /\ \A i \in 1 .. Len(messages) : messages[i].msg_id = i - 1

\* after a crash that lost one of two users the restarted process created
\* a user and sent a message
C19_Witness ==
    /\ crashes = 1 /\ up
    /\ started.users = 1
    /\ made.users = <<1>>
    /\ issued.users = {0, 1}
    /\ Len(users) = 2
    /\ writes = 3

(***************************************************************************)
(* Paging while messages are sent                                          *)
(***************************************************************************)
PageOf(i) == ((i - 1) \div pager.size) + 1
SlotOf(i) == ((i - 1) % pager.size) + 1
ShortPageRead ==
    \E j \in 1 .. Len(pager.pages) : Len(pager.pages[j]) < pager.size

\* C20: without a crash, while a client reads the pages of a recipient at
\* start 0, L, 2L, ... and messages are sent between the reads, no message
\* is returned in two pages, and every message of the recipient stored
\* before the first read is returned in exactly one page, at the position
\* it would have had without the sends.
C20_PagingStableUnderSends ==
    LET P == pager.pages
    IN  /\ \A j1, j2 \in 1 .. Len(P) :
               \A i1 \in 1 .. Len(P[j1]), i2 \in 1 .. Len(P[j2]) :
                   P[j1][i1].id = P[j2][i2].id => (j1 = j2 /\ i1 = i2)
        /\ \A i \in 1 .. Len(pager.base) :
               PageOf(i) <= Len(P) =>
                   /\ Len(P[PageOf(i)]) >= SlotOf(i)
                   /\ P[PageOf(i)][SlotOf(i)].id = pager.base[i]
                   /\ P[PageOf(i)][SlotOf(i)].recipient = pager.recipient
        /\ ShortPageRead =>
               \A i \in 1 .. Len(pager.base) : PageOf(i) <= Len(P)

\* three messages were stored at the first read of pages of two; a fourth
\* message, sent between the reads, came with the third on the second page
C20_Witness ==
    /\ pager.size = 2
    /\ Len(pager.base) = 3
    /\ Len(pager.pages) = 2
    /\ Len(pager.pages[1]) = 2
    /\ Len(pager.pages[2]) = 2
    /\ pager.pages[2][1].id = pager.base[3]
    /\ pager.pages[2][2].id = 3

(***************************************************************************)
(* Authorization in the request handlers                                   *)
(***************************************************************************)
SendCall == ret'.op = "handle_send_message" /\ vars' # vars
ListCall == ret'.op = "handle_messages" /\ vars' # vars

\* the header presents, as a bearer token, the stored auth_token of user p
PresentsTokenOf(auth, p) ==
    /\ WellFormed(auth)
    /\ \E i \in 1 .. Len(users) :
           users[i].u_id = p /\ users[i].auth_token = Words(auth)[2]

\* C15: in the request handlers a send-message request inserts a message only
\* when the presented bearer token is the stored auth_token of the user named
\* as sender, and inserts nothing when authorization fails or the message
\* type is invalid; a list-messages request returns messages only when the
\* presented bearer token is the stored auth_token of the user named as
\* recipient.
C15_HandlersActOnlyForTokenOwner ==
    [][/\ SendCall =>
            LET auth == ret'.args[1]
                body == ret'.args[2]
                inserted == messages' # messages
            IN  /\ inserted => /\ body.sender # <<>>
                               /\ PresentsTokenOf(auth, body.sender[1])
                               /\ body.content.type \in
                                      {"text", "image", "video"}
                               /\ messages' = Append(messages,
                                       handler_row(Len(messages), body,
                                                   Epoch).row)
                               /\ ret'.status = "200"
                /\ ret'.status # "200" =>
                       /\ messages' = messages
                       /\ disk' = disk
                /\ users' = users
       /\ ListCall =>
            LET auth == ret'.args[1]
                recipient == ret'.args[2]
            IN  /\ (ret'.status = "200" \/ ret'.val # <<>>) =>
                       PresentsTokenOf(auth, recipient)
                /\ UNCHANGED storeVars]_vars

\* user 1 sent a message with its own token after requests of the same
\* sender with another user's token and with an invalid type were refused
C15_Witness ==
    /\ ret.op = "handle_send_message"
    /\ ret.status = "200"
    /\ ret.args[1] = Str(<<"bearer", " ", "t2">>)
    /\ ret.args[2].sender = <<1>>
    /\ Len(users) = 2
    /\ users[2].auth_token = "t2"
    /\ users[1].auth_token = "t1"
    /\ Len(messages) = 2
    /\ messages[2].sender = 1
    /\ messages[1].sender = 0

\* the principal a request claims: the sender of the body, the recipient of
\* the query
Principal ==
    IF ret'.op = "handle_send_message" THEN ret'.args[2].sender
    ELSE <<ret'.args[2]>>

AuthRefused ==
    \/ ret'.status = "400" /\ ret'.val = AuthFailedSender
    \/ ret'.op = "handle_messages" /\ ret'.status = "400"

\* C17: in every store state, also when users share an auth_token, the
\* handler accepts a send-message or list-messages request with claimed
\* principal p and header "Bearer t" exactly when authenticate(p, "Bearer t")
\* is true, that is when the stored token of user p is t.
C17_HandlerDecisionIsAuthenticate ==
    [][((SendCall \/ ListCall) /\ WellFormed(ret'.args[1])
                               /\ Principal # <<>>) =>
           (~AuthRefused <=> authenticate(Principal[1], ret'.args[1]) = "True")
      ]_vars

====
